---- MODULE Spec2Model ----
(***************************************************************************)
(* A model of the gloo `file` crate (crates/file/src/lib.rs and            *)
(* crates/file/src/file_list.rs):                                          *)
(*                                                                         *)
(*   - FileReader::read_as_string, the bridge from the host reader's       *)
(*     onload callback to a futures-0.1 oneshot channel.  The function is  *)
(*     modelled statement by statement (pc), because the claims are about  *)
(*     the lifetime of the values it creates: the oneshot Sender, the      *)
(*     Rc<web_sys::FileReader> and the wasm_bindgen Closure `cb`.          *)
(*   - FileList / FileListIter, the snapshot-length view over the host's   *)
(*     file collection.                                                    *)
(*                                                                         *)
(* The host (the browser) is the environment.  It owns the reader object   *)
(* and the file collection, and it is modelled as unconstrained: it may    *)
(* dispatch the load event whenever a handler is registered and a read     *)
(* has been issued (a browser does so on a later turn of its event loop,   *)
(* once read_as_string has returned), any number of times, with any        *)
(* result; and it may change the file collection after it was wrapped.     *)
(*                                                                         *)
(* Library semantics the source relies on:                                 *)
(*   - a local binding is dropped at the end of its scope, in reverse      *)
(*     order of declaration, unless it was moved out;                      *)
(*   - dropping a wasm_bindgen Closure destroys the Rust closure and the   *)
(*     values it captured; the host function that stays registered then    *)
(*     throws a host exception when invoked, and runs no Rust code;        *)
(*   - Closure::once runs at most once: the FnOnce and its captures are    *)
(*     gone after the first invocation;                                    *)
(*   - oneshot::Sender::send consumes the sender; a sender dropped         *)
(*     without sending completes the receiver with Canceled;               *)
(*   - Option::unwrap on None panics; on wasm32 a panic aborts.            *)
(***************************************************************************)
EXTENDS Integers, Naturals, Sequences, FiniteSets, TLC

VARIABLES
    \* ---- FileReader::read_as_string ----
    pc,             \* position in read_as_string
    content,        \* the string the DataBlob was constructed from
    txState,        \* oneshot Sender: "none" | "alive" | "sent" | "dropped"
    slot,           \* the oneshot's data slot: NoValue or Some(string)
    rxState,        \* oneshot Receiver: "none" | "local" | "future" | "dropped"
    closure,        \* cb: "none" | "live" | "fired" | "freed"
    rcCount,        \* strong count of the Rc<web_sys::FileReader>
    readerAlive,    \* the web_sys::FileReader handle inside the Rc is not yet dropped
    onload,         \* the host reader has the callback registered as onload
    outcome,        \* what the consumer's await produced: Pending, Ok(s) or Err(())
    panicked,       \* the wasm instance aborted on a panic
    fires,          \* number of load events the host dispatched
    jsErrors,       \* number of dispatches that threw (destroyed closure)
    sends,          \* number of values put into the oneshot's slot
    polls,          \* number of polls of the returned future
    lastBody,       \* host result seen by the last run of the closure body
    textFired,      \* the host dispatched load with the blob's text as result
    firedAfterDrop, \* the host dispatched load after the future was dropped
    \* ---- FileList / FileListIter ----
    hostFiles,      \* the host's file collection (web_sys::FileList)
    wrapped,        \* a FileList wrapper exists (into_vec consumes it)
    made,           \* from_raw has been called
    hostChanges,    \* number of changes the host made to the collection
    length,         \* FileList.length, captured by from_raw
    mutated,        \* the host changed the collection after from_raw
    current,        \* FileListIter.current
    iterState,      \* "none" | "active" | "done" | "aborted"
    yielded,        \* the items the current iterator returned so far
    lastGet,        \* the last call of get: NoGet or [idx, found, file, hostLen]
    vecResult       \* the last into_vec: NoVec or [st, out]

readVars == <<pc, content, txState, slot, rxState, closure, rcCount, readerAlive,
              onload, outcome, panicked, fires, jsErrors, sends, polls, lastBody,
              textFired, firedAfterDrop>>
listVars == <<hostFiles, wrapped, made, hostChanges, length, mutated, current, iterState, yielded,
              lastGet, vecResult>>
vars == <<readVars, listVars>>

----------------------------------------------------------------------------
(* Bounds of the model *)

MaxFires == 2
MaxPolls == 2
MaxFiles == 3
MaxHostChanges == 2

Contents == {"hello", "{}"}

NoValue == <<"none">>
Some(s) == <<"some", s>>
Pending == <<"pending">>
Failed  == <<"err">>
Resolved(s) == <<"ok", s>>

\* What the host reader's `result` getter gives when the callback runs: the
\* blob's text, a value that is not a string, or a failed lookup.
HostResults == {"text", "nontext", "err"}

----------------------------------------------------------------------------
(* FileReader::read_as_string, lib.rs:140-157 *)

\* let (tx, rx) = futures::sync::oneshot::channel();
CreateChannel ==
    /\ pc = "idle" /\ ~panicked
    /\ pc' = "channel"
    /\ txState' = "alive"
    /\ rxState' = "local"
    /\ slot' = NoValue
    /\ UNCHANGED <<content, closure, rcCount, readerAlive, onload, outcome, panicked,
                   fires, jsErrors, sends, polls, lastBody, textFired, firedAfterDrop>>
    /\ UNCHANGED listVars

\* let reader = Rc::new(self.inner);
NewRc ==
    /\ pc = "channel" /\ ~panicked
    /\ pc' = "rc"
    /\ rcCount' = 1
    /\ UNCHANGED <<content, txState, slot, rxState, closure, readerAlive, onload, outcome,
                   panicked, fires, jsErrors, sends, polls, lastBody, textFired,
                   firedAfterDrop>>
    /\ UNCHANGED listVars

\* let cloned_reader = reader.clone();
CloneReader ==
    /\ pc = "rc" /\ ~panicked
    /\ pc' = "cloned"
    /\ rcCount' = rcCount + 1
    /\ UNCHANGED <<content, txState, slot, rxState, closure, readerAlive, onload, outcome,
                   panicked, fires, jsErrors, sends, polls, lastBody, textFired,
                   firedAfterDrop>>
    /\ UNCHANGED listVars

\* let cb = Closure::once(move || { ... });  cloned_reader and tx move into cb.
MakeClosure ==
    /\ pc = "cloned" /\ ~panicked
    /\ pc' = "closure"
    /\ closure' = "live"
    /\ UNCHANGED <<content, txState, slot, rxState, rcCount, readerAlive, onload, outcome,
                   panicked, fires, jsErrors, sends, polls, lastBody, textFired,
                   firedAfterDrop>>
    /\ UNCHANGED listVars

\* let reader = reader.clone();  the first binding is shadowed, not dropped.
ShadowReader ==
    /\ pc = "closure" /\ ~panicked
    /\ pc' = "shadowed"
    /\ rcCount' = rcCount + 1
    /\ UNCHANGED <<content, txState, slot, rxState, closure, readerAlive, onload, outcome,
                   panicked, fires, jsErrors, sends, polls, lastBody, textFired,
                   firedAfterDrop>>
    /\ UNCHANGED listVars

\* let function = cb.as_ref().dyn_ref().unwrap();  reader.set_onload(Some(function));
\* cb is only borrowed: the host gets the function, the Closure stays a local.
SetOnload ==
    /\ pc = "shadowed" /\ ~panicked
    /\ pc' = "registered"
    /\ onload' = TRUE
    /\ UNCHANGED <<content, txState, slot, rxState, closure, rcCount, readerAlive, outcome,
                   panicked, fires, jsErrors, sends, polls, lastBody, textFired,
                   firedAfterDrop>>
    /\ UNCHANGED listVars

\* reader.read_as_text(&blob.raw()).unwrap();  the reader is fresh (self is
\* consumed), so the host call does not throw.
ReadAsText ==
    /\ pc = "registered" /\ ~panicked
    /\ pc' = "reading"
    /\ UNCHANGED <<content, txState, slot, rxState, closure, rcCount, readerAlive, onload,
                   outcome, panicked, fires, jsErrors, sends, polls, lastBody, textFired,
                   firedAfterDrop>>
    /\ UNCHANGED listVars

\* RcAfterReturn with the first `reader` binding leaked instead of dropped.
MutRcLeakAfterReturn(n, closureLive) == n - 1 - (IF closureLive THEN 1 ELSE 0)

\* The strong count after the scope of read_as_string ends: both `reader`
\* bindings are dropped, and cb is dropped; dropping a Closure that was never
\* invoked drops the cloned_reader it captured.
RcAfterReturn(n, closureLive) == n - 2 - (IF closureLive THEN 1 ELSE 0)

\* rx.map_err(|_| ())  and the end of the scope.  rx moves into the returned
\* future; cb is not moved anywhere (no forget, not stored in the future), so
\* it is dropped here: a closure not yet invoked is destroyed, and with it
\* the tx it captured.
Return ==
    /\ pc = "reading" /\ ~panicked
    /\ pc' = "returned"
    /\ rxState' = "future"
    /\ closure' = IF closure = "live" THEN "freed" ELSE closure
    /\ txState' = IF closure = "live" THEN "dropped" ELSE txState
    /\ rcCount' = RcAfterReturn(rcCount, closure = "live")
    /\ readerAlive' = (rcCount' > 0)
    /\ UNCHANGED <<content, slot, onload, outcome, panicked, fires, jsErrors, sends, polls,
                   lastBody, textFired, firedAfterDrop>>
    /\ UNCHANGED listVars

\* ClosureAfterCall for a closure that can be invoked again (Closure::wrap).
MutClosureStaysLive == "live"

\* Closure::once: the FnOnce is consumed by its first invocation.
ClosureAfterCall == "fired"

\* TxAfterLookupFailure with the sender kept instead of dropped.
MutTxKeptOnLookupFailure == "alive"

\* cloned_reader.result() is Err: Result::map drops the inner closure without
\* calling it, and the tx it captured by move with it.
TxAfterLookupFailure == "dropped"

\* The host dispatches the load event: it invokes the function registered as
\* onload.  With cb live this runs the closure body (lib.rs:147-151); with cb
\* fired or destroyed the host function throws and no Rust code runs.
FireLoad(res) ==
    /\ onload /\ pc \in {"reading", "returned"} /\ ~panicked
    /\ fires < MaxFires
    /\ fires' = fires + 1
    /\ textFired' = (textFired \/ res = "text")
    /\ firedAfterDrop' = (firedAfterDrop \/ rxState = "dropped")
    /\ IF closure = "live"
       THEN /\ lastBody' = res
            /\ jsErrors' = jsErrors
            /\ CASE res = "err" ->
                      \* let _ = Err(..).map(..): nothing is sent
                      /\ txState' = TxAfterLookupFailure
                      /\ closure' = ClosureAfterCall
                      /\ rcCount' = rcCount - 1
                      /\ readerAlive' = (rcCount' > 0)
                      /\ UNCHANGED <<slot, sends, panicked>>
                 [] res = "nontext" ->
                      \* r.as_string() is None: unwrap panics, the instance aborts
                      /\ panicked' = TRUE
                      /\ UNCHANGED <<txState, closure, rcCount, readerAlive, slot, sends>>
                 [] res = "text" ->
                      \* let _ = tx.send(s): Err(s) when the receiver is gone
                      /\ txState' = "sent"
                      /\ closure' = ClosureAfterCall
                      /\ rcCount' = rcCount - 1
                      /\ readerAlive' = (rcCount' > 0)
                      /\ IF rxState \in {"local", "future"}
                         THEN slot' = Some(content) /\ sends' = sends + 1
                         ELSE UNCHANGED <<slot, sends>>
                      /\ UNCHANGED panicked
       ELSE /\ jsErrors' = jsErrors + 1
            /\ UNCHANGED <<txState, closure, rcCount, readerAlive, slot, sends, panicked,
                           lastBody>>
    /\ UNCHANGED <<pc, content, rxState, onload, outcome, polls>>
    /\ UNCHANGED listVars

\* PollResult that takes a dropped sender for one that has not sent yet.
MutPollIgnoresCancel(complete, data) ==
    IF complete /\ data # NoValue THEN Resolved(data[2]) ELSE Pending

\* oneshot::Receiver::poll followed by map_err(|_| ()): once the sender is
\* gone (sent or dropped) the slot's value if there is one, else Canceled,
\* mapped to (); NotReady while the sender is alive.
PollResult(complete, data) ==
    IF complete
    THEN IF data # NoValue THEN Resolved(data[2]) ELSE Failed
    ELSE Pending

\* The consumer polls the returned future (it stops polling once it is ready).
Poll ==
    /\ pc = "returned" /\ ~panicked
    /\ rxState = "future" /\ outcome = Pending
    /\ polls < MaxPolls
    /\ polls' = polls + 1
    /\ outcome' = PollResult(txState \in {"sent", "dropped"}, slot)
    /\ slot' = IF outcome' = Pending THEN slot ELSE NoValue
    /\ UNCHANGED <<pc, content, txState, rxState, closure, rcCount, readerAlive, onload,
                   panicked, fires, jsErrors, sends, lastBody, textFired, firedAfterDrop>>
    /\ UNCHANGED listVars

\* The consumer drops the returned future.
DropFuture ==
    /\ pc = "returned" /\ ~panicked
    /\ rxState = "future"
    /\ rxState' = "dropped"
    /\ UNCHANGED <<pc, content, txState, slot, closure, rcCount, readerAlive, onload,
                   outcome, panicked, fires, jsErrors, sends, polls, lastBody, textFired,
                   firedAfterDrop>>
    /\ UNCHANGED listVars

----------------------------------------------------------------------------
(* FileList and FileListIter, lib.rs:6-60 (file_list.rs:3-57 is the same code) *)

\* The crate runs on wasm32 only (web_sys has no host elsewhere): usize is as
\* wide as u32.
UsizeBits == 32
U32Bits == 32

\* TLC's integers are 32-bit signed, so a usize or u32 value is held as a
\* little-endian sequence of limbs of half a u32 each.
LimbBits == U32Bits \div 2
LimbMax == 2^LimbBits - 1
Limbs(bits) == bits \div LimbBits

\* A small natural number (below 2^LimbBits) as a usize.
ToUsize(n) == [k \in 1..Limbs(UsizeBits) |-> IF k = 1 THEN n ELSE 0]

\* The word is below 2^LimbBits, and below n.
WordLess(w, n) == (\A k \in 2..Len(w) : w[k] = 0) /\ w[1] < n

\* AsU32 narrowing to the low limb only (`index as u16 as u32`).
MutAsU16(ix) == [k \in 1..Limbs(U32Bits) |-> IF k = 1 THEN ix[1] ELSE 0]

\* `index as u32`: keeps the low 32 bits.
AsU32(ix) == [k \in 1..Limbs(U32Bits) |-> IF k <= Len(ix) THEN ix[k] ELSE 0]

\* web_sys::FileList::get(u32): the host's item(index), None out of range.
HostGet(host, u) == IF WordLess(u, Len(host)) THEN Some(host[u[1] + 1]) ELSE NoValue

\* FileList::get: self.inner.get(index as u32).map(File::from_raw)
FileListGet(host, ix) == HostGet(host, AsU32(ix))

\* FileList::len: the length captured by from_raw.
FileListLen == length

\* IterNext without the assertion: a failed lookup is returned as None.
MutIterNextNoAssert(host, len, cur) ==
    IF cur >= len
    THEN [ret |-> NoValue, cur |-> cur, abort |-> FALSE]
    ELSE [ret |-> FileListGet(host, ToUsize(cur)), cur |-> cur + 1, abort |-> FALSE]

\* IterNext with the end test off by one (`>` for `>=`).
MutIterNextOffByOne(host, len, cur) ==
    IF cur > len
    THEN [ret |-> NoValue, cur |-> cur, abort |-> FALSE]
    ELSE LET file == FileListGet(host, ToUsize(cur))
         IN  [ret |-> file, cur |-> cur + 1, abort |-> (file = NoValue)]

\* FileListIter::next on an iterator at `cur` over a list of captured
\* length `len`: the item returned, the new `current`, and whether the
\* assert!(file.is_some()) failed.
IterNext(host, len, cur) ==
    IF cur >= len
    THEN [ret |-> NoValue, cur |-> cur, abort |-> FALSE]
    ELSE LET file == FileListGet(host, ToUsize(cur))
         IN  [ret |-> file, cur |-> cur + 1, abort |-> (file = NoValue)]

\* Iterator::collect over FileListIter: next() until it returns None.
RECURSIVE Collect(_, _, _, _)
Collect(host, len, cur, acc) ==
    LET r == IterNext(host, len, cur)
    IN  IF r.abort THEN [st |-> "aborted", out |-> acc]
        ELSE IF r.ret = NoValue THEN [st |-> "done", out |-> acc]
        ELSE Collect(host, len, r.cur, Append(acc, r.ret[2]))

NoGet == [called |-> FALSE, idx |-> <<>>, res |-> NoValue, hostLen |-> 0, len |-> 0]
NoVec == [st |-> "none", out |-> <<>>, host |-> <<>>, len |-> 0, stable |-> TRUE]

\* A failed assertion aborts: nothing runs afterwards.
Aborted == iterState = "aborted" \/ vecResult.st = "aborted"

FileIds == 1..MaxFiles

\* The collections the host can hold: up to MaxFiles distinct files.
HostCollections ==
    UNION { { h \in [1..n -> FileIds] : \A i, j \in 1..n : h[i] = h[j] => i = j }
            : n \in 0..MaxFiles }

\* The index values get is called with: around the length, and the values
\* at and above 2^LimbBits up to the largest usize.
GetIndices ==
    { ToUsize(n) : n \in 0..(MaxFiles + 1) }
    \cup { [k \in 1..Limbs(UsizeBits) |-> IF k = 2 THEN 1 ELSE 0],
           [k \in 1..Limbs(UsizeBits) |-> IF k = 2 THEN 1 ELSE 1],
           [k \in 1..Limbs(UsizeBits) |-> LimbMax] }

\* FileList::from_raw (and FileList::new, which maps it over input.files()).
FromRaw ==
    /\ ~made /\ ~Aborted
    /\ made' = TRUE
    /\ wrapped' = TRUE
    /\ length' = Len(hostFiles)
    /\ mutated' = FALSE
    /\ current' = 0 /\ iterState' = "none" /\ yielded' = <<>>
    /\ UNCHANGED <<hostFiles, hostChanges, lastGet, vecResult>>
    /\ UNCHANGED readVars

\* FileList::get(index)
Get(ix) ==
    /\ wrapped /\ ~Aborted
    /\ lastGet' = [called |-> TRUE, idx |-> ix, res |-> FileListGet(hostFiles, ix),
                   hostLen |-> Len(hostFiles), len |-> FileListLen]
    /\ UNCHANGED <<hostFiles, wrapped, made, hostChanges, length, mutated, current,
                   iterState, yielded, vecResult>>
    /\ UNCHANGED readVars

\* FileList::iter: a new iterator, at index 0.
Iter ==
    /\ wrapped /\ ~Aborted
    /\ current' = 0
    /\ iterState' = "active"
    /\ yielded' = <<>>
    /\ UNCHANGED <<hostFiles, wrapped, made, hostChanges, length, mutated, lastGet,
                   vecResult>>
    /\ UNCHANGED readVars

\* One call of FileListIter::next.
IterNextStep ==
    /\ wrapped /\ iterState = "active" /\ ~Aborted
    /\ LET r == IterNext(hostFiles, FileListLen, current)
       IN  /\ current' = r.cur
           /\ iterState' = IF r.abort THEN "aborted"
                           ELSE IF r.ret = NoValue THEN "done" ELSE "active"
           /\ yielded' = IF r.ret = NoValue THEN yielded ELSE Append(yielded, r.ret[2])
    /\ UNCHANGED <<hostFiles, wrapped, made, hostChanges, length, mutated, lastGet,
                   vecResult>>
    /\ UNCHANGED readVars

\* FileList::into_vec: self.iter().collect(), consuming the list.
IntoVec ==
    /\ wrapped /\ ~Aborted
    /\ LET r == Collect(hostFiles, FileListLen, 0, <<>>)
       IN  vecResult' = [st |-> r.st, out |-> r.out, host |-> hostFiles,
                         len |-> FileListLen, stable |-> ~mutated]
    /\ wrapped' = FALSE
    /\ current' = 0 /\ iterState' = "none" /\ yielded' = <<>>
    /\ UNCHANGED <<hostFiles, made, hostChanges, length, mutated, lastGet>>
    /\ UNCHANGED readVars

\* The host removes the last file of the collection.
HostRemove ==
    /\ wrapped /\ ~Aborted /\ hostChanges < MaxHostChanges
    /\ Len(hostFiles) > 0
    /\ hostFiles' = SubSeq(hostFiles, 1, Len(hostFiles) - 1)
    /\ mutated' = TRUE
    /\ hostChanges' = hostChanges + 1
    /\ UNCHANGED <<wrapped, made, length, current, iterState, yielded, lastGet, vecResult>>
    /\ UNCHANGED readVars

\* The host appends a file to the collection.
HostAppend(f) ==
    /\ wrapped /\ ~Aborted /\ hostChanges < MaxHostChanges
    /\ Len(hostFiles) < MaxFiles
    /\ \A i \in 1..Len(hostFiles) : hostFiles[i] # f
    /\ hostFiles' = Append(hostFiles, f)
    /\ mutated' = TRUE
    /\ hostChanges' = hostChanges + 1
    /\ UNCHANGED <<wrapped, made, length, current, iterState, yielded, lastGet, vecResult>>
    /\ UNCHANGED readVars

ListIdle ==
    /\ hostFiles = <<>> /\ wrapped = FALSE /\ made = FALSE /\ hostChanges = 0
    /\ length = 0 /\ mutated = FALSE
    /\ current = 0 /\ iterState = "none" /\ yielded = <<>>
    /\ lastGet = NoGet /\ vecResult = NoVec

\* FileReader::new() and DataBlob::new(content): nothing has been read yet.
ReadIdle ==
    /\ pc = "idle"
    /\ txState = "none" /\ slot = NoValue /\ rxState = "none"
    /\ closure = "none" /\ rcCount = 0 /\ readerAlive = TRUE /\ onload = FALSE
    /\ outcome = Pending /\ panicked = FALSE
    /\ fires = 0 /\ jsErrors = 0 /\ sends = 0 /\ polls = 0
    /\ lastBody = "none" /\ textFired = FALSE /\ firedAfterDrop = FALSE

Init ==
    /\ content \in Contents
    /\ ReadIdle
    /\ ListIdle

Next ==
    \/ CreateChannel
    \/ NewRc
    \/ CloneReader
    \/ MakeClosure
    \/ ShadowReader
    \/ SetOnload
    \/ ReadAsText
    \/ Return
    \/ \E res \in HostResults : FireLoad(res)
    \/ Poll
    \/ DropFuture

Spec == Init /\ [][Next]_vars

\* The host holds some collection; no FileList wraps it yet.
InitFiles ==
    /\ content = "hello"
    /\ ReadIdle
    /\ hostFiles \in HostCollections
    /\ wrapped = FALSE /\ made = FALSE /\ hostChanges = 0
    /\ length = 0 /\ mutated = FALSE
    /\ current = 0 /\ iterState = "none" /\ yielded = <<>>
    /\ lastGet = NoGet /\ vecResult = NoVec

NextFiles ==
    \/ FromRaw
    \/ \E ix \in GetIndices : Get(ix)
    \/ Iter
    \/ IterNextStep
    \/ IntoVec
    \/ HostRemove
    \/ \E f \in FileIds : HostAppend(f)

SpecFiles == InitFiles /\ [][NextFiles]_vars

----------------------------------------------------------------------------
(* The claims about read_as_string, checked under Spec *)

\* C1: once read_as_string was called and the host completed the text read
\* and fired the load event, the future resolves successfully with exactly
\* the blob's content: whenever it is resolved, it is Ok(content).
C1_ResolvesWithContent ==
    (textFired /\ outcome # Pending) => outcome = Resolved(content)

\* C2: over every sequence of host events the future is resolved at most
\* once: at most one value is ever put into the channel, and an outcome,
\* once there, never changes.
C2_ResolvedAtMostOnce ==
    [][ /\ sends' <= 1
        /\ (outcome # Pending => outcome' = outcome) ]_vars

\* The load event fired more than once and the future resolved with the value.
C2_Witness == fires >= 2 /\ sends = 1 /\ outcome = Resolved(content)

\* C3: when the callback runs and the host result is not a string (failed
\* lookup or non-text value), it does nothing: no value is delivered and
\* nothing panics.
C3_SilentOnBadResult ==
    lastBody \in {"nontext", "err"} => (~panicked /\ sends = 0)

C5_SenderDroppedGivesError ==
    [][ /\ (polls' = polls + 1 /\ txState = "dropped" /\ slot = NoValue)
            => outcome' = Failed
        /\ (outcome' \notin {Pending, Failed})
            => (sends' = 1 /\ outcome' = Resolved(content)) ]_vars

\* The closure was freed without ever firing, and the future failed.
C5_Witness == closure = "freed" /\ fires = 0 /\ outcome = Failed

\* What the callback closure holds of the reader's strong count.
CallbackHolds == IF closure = "live" THEN 1 ELSE 0

C10_ClosureLivesUntilFired ==
    ~(pc = "returned" /\ fires = 0 /\ closure = "freed")

----------------------------------------------------------------------------
(* The claims about FileList, checked under SpecFiles *)

\* C7: an iteration never ends early. One that ended normally yielded
\* exactly len() items; next() aborts at the first index below len() whose
\* lookup fails, after yielding every item before it.
C7_AbortNotEarlyEnd ==
    /\ iterState = "done" => Len(yielded) = FileListLen
    /\ iterState = "active" => Len(yielded) = current
    /\ vecResult.st = "done" => Len(vecResult.out) = vecResult.len
    /\ iterState = "aborted" =>
          /\ current - 1 < FileListLen
          /\ Len(yielded) = current - 1
          /\ current - 1 >= Len(hostFiles)

\* The host collection shrank below the captured length and next() aborted.
C7_Witness == iterState = "aborted" /\ Len(hostFiles) < FileListLen

\* C8: over a host collection of length N, len() is N, and get(i) is Some
\* (the host's entry i) exactly for the usize values i < N.
C8_LenAndGet ==
    /\ (wrapped /\ ~mutated) => FileListLen = Len(hostFiles)
    /\ (lastGet.called /\ lastGet.hostLen = lastGet.len) =>
          /\ lastGet.res # NoValue <=> WordLess(lastGet.idx, lastGet.len)
          /\ (lastGet.res # NoValue /\ ~mutated) =>
                lastGet.res = Some(hostFiles[lastGet.idx[1] + 1])

\* get was called with an index of 2^16 or more on a non-empty list, and
\* returned None.
C8_Witness ==
    /\ lastGet.called /\ lastGet.hostLen = lastGet.len /\ lastGet.len > 0
    /\ lastGet.idx[2] # 0
    /\ lastGet.res = NoValue

\* C9: over an unchanged host collection of length N, into_vec and every
\* iter() yield exactly the N entries in host order and terminate; every
\* iterator starts at index 0.
C9_YieldsAllInOrder ==
    /\ (vecResult.st # "none" /\ vecResult.stable) =>
          /\ vecResult.st = "done"
          /\ vecResult.out = vecResult.host
          /\ Len(vecResult.out) = vecResult.len
    /\ ~mutated =>
          /\ iterState # "aborted"
          /\ iterState \in {"active", "done"} => yielded = SubSeq(hostFiles, 1, current)
          /\ iterState = "done" => yielded = hostFiles

\* into_vec returned two or more files of an unchanged collection.
C9_Witness ==
    vecResult.st = "done" /\ vecResult.stable /\ Len(vecResult.out) >= 2

====
